---- MODULE Spec2Model ----
(***************************************************************************)
(* The gateway's routing core: the server registry and session index       *)
(* (services/serverManager.js), the load balancer (the richer variant of   *)
(* loadBalancer.js, with the trailing-slash rewrite), the health monitor   *)
(* (services/healthMonitor.js), the TTL cache (utils/cache.js) and the     *)
(* controller operations that drive them (controllers/apiController.js).   *)
(*                                                                         *)
(* Every outbound HTTP call is a suspension point.  An exchange is sent,   *)
(* served by the backend at some later moment (its answer is fixed then),  *)
(* and completed when the gateway's continuation runs; anything may happen *)
(* between these three moments.  The code between two awaits runs as one   *)
(* step (one action).  A GET /sessions changes nothing on the backend, so  *)
(* its serving moment only matters relative to the changes of that         *)
(* backend's session list: an exchange still "sent" when it completes is   *)
(* served then, and each change of the list first lets every probe in      *)
(* flight to that backend be served or not (Overtake).                     *)
(*                                                                         *)
(* The specifications.  Spec: pair requests, resets and health sweeps      *)
(* in any interleaving, the backends holding any sessions at start-up.     *)
(* SpecSeq: every operation, deletes included, one request or sweep at a   *)
(* time, on a fresh deployment.  SpecRR: the load balancer called on its   *)
(* own over tied backends.  SpecFind: find and delete requests over        *)
(* backends holding any sessions, beside the health monitor.  SpecAdmin:   *)
(* the admin requests, addressed to any id.  SpecFwd: forwardRequest       *)
(* called on its own with any request path.  SpecCache: the cache called   *)
(* on its own while the clock runs (everywhere else the clock stands       *)
(* still, so no entry expires).  SpecMon: the health monitor on its own,   *)
(* started and stopped at will.  SpecLive: the running monitor with        *)
(* answering backends, its timer and continuations weakly fair.            *)
(* SpecRace: delete requests beside direct selections.                     *)
(*                                                                         *)
(* Not modelled: lastChecked, responseTime, error text, headers,           *)
(* logging, rate limiting and request validation; no operation modelled    *)
(* here reads them back.                                                   *)
(***************************************************************************)
EXTENDS Integers, Sequences, FiniteSets, TLC

(***************************************************************************)
(* Configuration (config/constants.js): the default two backends.  The     *)
(* numeric settings are read from the environment; MAX_RETRIES is the      *)
(* value the model runs with, MAX_SESSIONS_PER_SERVER is chosen at         *)
(* start-up (a variable below).                                            *)
(***************************************************************************)
NumServers == 2
MAX_RETRIES == 2

HEALTHY == "healthy"
UNHEALTHY == "unhealthy"
FULL == "full"
STATUS == {HEALTHY, UNHEALTHY, FULL}

(* Bounds of the model: the largest configured MAX_SESSIONS_PER_SERVER,    *)
(* the status updates one backend receives and the requests and timer     *)
(* ticks of a run (concurrent, sequential), the direct selections made,    *)
(* the largest starting cursor, the largest tied set and the largest       *)
(* registry classified, the longest request path (in pieces), the last     *)
(* instant of the clock, the longest time to live given to an entry, and   *)
(* the status updates and the calls and timer ticks of a run of the        *)
(* monitor alone, and of a run of the recovering monitor.                  *)
MaxCapacity == 2
MaxChecks == 2
MaxChecksSeq == 4
MaxRequests == 2
MaxRequestsSeq == 3
MaxChecksFind == 2
MaxRequestsFind == 2
MaxChecksAdmin == 3
MaxRequestsAdmin == 3
MaxPicks == 4
MaxCursor == 3
MaxTied == 3
MaxRegistry == 3
MaxPath == 5
MaxTime == 3
MaxChecksMon == 3
MaxCallsMon == 5
MaxChecksLive == 3
MaxSweepsLive == 2
MaxTtl == 2
MaxChecksRace == 1
MaxRequestsRace == 2

Servers == 1..NumServers

(* The ids an admin request may name: the backends and an unknown one. *)
AdminIds == 1..(NumServers + 1)
Sessions == {"s1", "s2"}

(* A count that failed to be read (loadBalancer: sessionCount: Infinity). *)
Infinity == 1000

(* Transport error classes (error.code), and HTTP error answers. *)
ECONNREFUSED == "ECONNREFUSED"
ETIMEDOUT == "ETIMEDOUT"
ECONNABORTED == "ECONNABORTED"
EOTHER == "EOTHER"
ErrorCodes == {ECONNREFUSED, ETIMEDOUT, ECONNABORTED, EOTHER}

SESSION_CACHE_TTL == 1

NoServer == 0
NoSession == "none"

VARIABLES
    MAX_SESSIONS_PER_SERVER, \* CONFIG.MAX_SESSIONS_PER_SERVER, read at start-up
    servers,        \* ServerManager.servers: id -> backend record
    sessionMap,     \* ServerManager.sessionMap: sessionId -> serverId
    cacheStore,     \* Cache.store: key sessions_<id> -> {value, expiry}
    now,            \* Date.now()
    roundRobinIndex,\* LoadBalancer.roundRobinIndex
    monitor,        \* HealthMonitor: isMonitoring, healthCheckInterval
    backend,        \* the backends themselves: the sessions each one holds
    hprobe,         \* in-flight GET /sessions of the health monitor, per backend
    sel,            \* the selectOptimalServer call in progress
    cprobe,         \* in-flight GET /sessions of getServerSessionCount, per backend
    pair,           \* the handlePair request in progress
    fwd,            \* its forwarded request in flight
    picks,          \* the backends returned by direct selectOptimalServer calls
    del,            \* the deleteSession request in progress
    fprobe,         \* in-flight GET /sessions of findSessionServer (to del.at)
    lg,             \* in-flight POST /logout/<sid> of deleteSessionFromServer
    accepted,       \* the requests accepted and timer ticks handled so far
    ev              \* the step just taken (history, read by properties only)

config == <<MAX_SESSIONS_PER_SERVER, now>>
registry == <<servers, sessionMap, cacheStore>>
health == <<monitor, hprobe>>
balancer == <<roundRobinIndex, sel, cprobe, picks>>
pairing == <<pair, fwd>>
deleting == <<del, fprobe, lg>>

vars == <<config, registry, health, balancer, pairing, deleting, backend,
          accepted, ev>>

(***************************************************************************)
(* HTTP exchanges.                                                         *)
(***************************************************************************)
Idle == [st |-> "idle"]
Sent == [st |-> "sent"]
Served(b) == [st |-> "served", body |-> b]

(* How a transport failure may end an exchange: a refused connection never *)
(* reached the backend; a timeout, an abort or another failure may also    *)
(* lose an answer the backend already gave.                                *)
MayFail(x, code) ==
    /\ x.st \in {"sent", "served"}
    /\ code = ECONNREFUSED => x.st = "sent"

NoEvent == [op |-> "none"]

(***************************************************************************)
(* TTL cache (utils/cache.js).  Keys are the sessions_<id> of the         *)
(* registry, one per backend.                                              *)
(***************************************************************************)
NoEntry == [value |-> -1, expiry |-> -1]
null == -1

CacheSet(store, key, value, ttl, t) ==
    [store EXCEPT ![key] = [value |-> value, expiry |-> t + ttl]]

CacheDelete(store, key) == [store EXCEPT ![key] = NoEntry]

(* get: the value returned, null when absent or expired. *)
CacheGetValue(store, key, t) ==
    IF store[key] = NoEntry THEN null
    ELSE IF t > store[key].expiry THEN null
    ELSE store[key].value

(* A variant of CacheGetStore that keeps an expired entry. *)
CacheGetStoreKeeps(store, key, t) == store

(* get: the store afterwards (a read past expiry deletes the entry). *)
CacheGetStore(store, key, t) ==
    IF store[key] # NoEntry /\ t > store[key].expiry
    THEN [store EXCEPT ![key] = NoEntry]
    ELSE store

(* The cache used on its own: set, get, delete, and time passing. *)
cacheSet(key, value, ttl) ==
    /\ cacheStore' = CacheSet(cacheStore, key, value, ttl, now)
    /\ ev' = [op |-> "cacheSet", key |-> key, value |-> value, ttl |-> ttl]
    /\ UNCHANGED <<config, servers, sessionMap, health, balancer, pairing,
                   deleting, backend, accepted>>

cacheGet(key) ==
    /\ cacheStore' = CacheGetStore(cacheStore, key, now)
    /\ ev' = [op |-> "cacheGet", key |-> key,
              value |-> CacheGetValue(cacheStore, key, now)]
    /\ UNCHANGED <<config, servers, sessionMap, health, balancer, pairing,
                   deleting, backend, accepted>>

cacheDelete(key) ==
    /\ cacheStore' = CacheDelete(cacheStore, key)
    /\ ev' = NoEvent
    /\ UNCHANGED <<config, servers, sessionMap, health, balancer, pairing,
                   deleting, backend, accepted>>

(* Date.now() moves on. *)
tick ==
    /\ now < MaxTime
    /\ now' = now + 1
    /\ ev' = NoEvent
    /\ UNCHANGED <<MAX_SESSIONS_PER_SERVER, registry, health, balancer,
                   pairing, deleting, backend, accepted>>

(***************************************************************************)
(* Server registry (services/serverManager.js).                            *)
(***************************************************************************)
initializeServers ==
    [id \in Servers |->
        [status |-> HEALTHY, sessionCount |-> 0, isActive |-> TRUE,
         sessions |-> {}, healthChecks |-> 0, failures |-> 0,
         deletedSessions |-> 0]]

getActiveServers(srv) ==
    {id \in Servers : srv[id].status = HEALTHY /\ srv[id].isActive}

(* The patch of updateServerStatus: of the fields the model keeps, the     *)
(* callers only ever pass sessionCount (or leave it out).                  *)
NoData == [hasCount |-> FALSE, sessionCount |-> 0]
CountData(n) == [hasCount |-> TRUE, sessionCount |-> n]

(* A variant of updateServerStatus that leaves a FULL backend active. *)
updateServerStatusFullStaysActive(srv, id, status, data) ==
    LET s0 == srv[id]
        s1 == [s0 EXCEPT !.status = status,
                         !.healthChecks = @ + 1]
        s2 == IF status = UNHEALTHY
              THEN [s1 EXCEPT !.failures = @ + 1, !.isActive = FALSE]
              ELSE [s1 EXCEPT !.isActive = TRUE]
        s3 == IF data.hasCount
              THEN [s2 EXCEPT !.sessionCount = data.sessionCount]
              ELSE s2
    IN [srv EXCEPT ![id] = s3]

updateServerStatus(srv, id, status, data) ==
    LET s0 == srv[id]
        s1 == [s0 EXCEPT !.status = status,
                         !.healthChecks = @ + 1]
        s2 == IF status = UNHEALTHY
              THEN [s1 EXCEPT !.failures = @ + 1, !.isActive = FALSE]
              ELSE IF status = FULL
              THEN [s1 EXCEPT !.isActive = FALSE]
              ELSE [s1 EXCEPT !.isActive = TRUE]
        s3 == IF data.hasCount
              THEN [s2 EXCEPT !.sessionCount = data.sessionCount]
              ELSE s2
    IN [srv EXCEPT ![id] = s3]

(* A variant of resetServer that also clears the failures counter. *)
resetServerClearsFailures(srv, id) ==
    [srv EXCEPT ![id] = [@ EXCEPT !.status = HEALTHY, !.isActive = TRUE,
                                  !.failures = 0]]

resetServer(srv, id) ==
    IF id \in DOMAIN srv
    THEN [srv EXCEPT ![id] = [@ EXCEPT !.status = HEALTHY, !.isActive = TRUE]]
    ELSE srv

(* A variant of CountOkServers that reports the backend HEALTHY. *)
CountOkServersHealthy(srv, id, list) ==
    updateServerStatus([srv EXCEPT ![id].sessions = list], id, HEALTHY,
                       CountData(Cardinality(list)))

(* getServerSessionCount after its probe answered with `list`: the         *)
(* registry, the session index and the cache it leaves.                    *)
CountOkServers(srv, id, list) ==
    updateServerStatus([srv EXCEPT ![id].sessions = list], id, srv[id].status,
                       CountData(Cardinality(list)))

(* A variant of CountOkMap that writes the id after the probed one. *)
CountOkMapNextId(map, id, list) ==
    [x \in Sessions |-> IF x \in list THEN id + 1 ELSE map[x]]

CountOkMap(map, id, list) ==
    [x \in Sessions |-> IF x \in list THEN id ELSE map[x]]

CountOkCache(store, id, list, t) ==
    CacheDelete(CacheSet(store, id, Cardinality(list), SESSION_CACHE_TTL, t), id)

(* A variant of MarksUnhealthy that counts an aborted request as well. *)
MarksUnhealthyAborted(code) == code \in {ECONNREFUSED, ETIMEDOUT, ECONNABORTED}

(* getServerSessionCount after its probe failed with error.code = code     *)
(* (an answer outside 2xx carries no such code: EOTHER).                   *)
MarksUnhealthy(code) == code \in {ECONNREFUSED, ETIMEDOUT}

CountFailServers(srv, id, code) ==
    IF MarksUnhealthy(code) THEN updateServerStatus(srv, id, UNHEALTHY, NoData)
    ELSE srv

CountFailCache(store, id, code) ==
    IF MarksUnhealthy(code) THEN CacheDelete(store, id) ELSE store

(***************************************************************************)
(* The backends.                                                           *)
(***************************************************************************)
Owner(x) == {b \in Servers : x \in backend[b]}

(* Answers of a backend to a forwarded pair request. *)
NoResp == [status |-> 0, kind |-> "none", sid |-> NoSession]
Created(x) == [status |-> 200, kind |-> "ok", sid |-> x]
Refusals ==
    { [status |-> 200, kind |-> "notok", sid |-> NoSession],
      [status |-> 500, kind |-> "error", sid |-> NoSession],
      [status |-> 200, kind |-> "error", sid |-> NoSession],
      [status |-> 200, kind |-> "empty", sid |-> NoSession] }

(* The answer of a GET /sessions exchange x to backend id, completing now. *)
Answer(x, id) == IF x.st = "served" THEN x.body ELSE backend[id]

(* The session list of backend id is about to change: each probe in flight *)
(* to it has been served already (it keeps the old list) or has not.       *)
Stamp(slots, id) ==
    {[slots EXCEPT ![id] = v] :
        v \in IF slots[id] = Sent THEN {Sent, Served(backend[id])}
              ELSE {slots[id]}}

Overtake(id) ==
    /\ hprobe' \in Stamp(hprobe, id)
    /\ cprobe' \in Stamp(cprobe, id)
    /\ fprobe' \in IF fprobe = Sent /\ del.at = id
                   THEN {Sent, Served(backend[id])}
                   ELSE {fprobe}

(* The backend creates session x for the forwarded pair request. *)
ServePairCreate(x) ==
    /\ fwd.st = "sent"
    /\ Owner(x) = {}
    /\ backend' = [backend EXCEPT ![pair.target] = @ \cup {x}]
    /\ Overtake(pair.target)
    /\ fwd' = Served(Created(x))
    /\ ev' = NoEvent
    /\ UNCHANGED <<config, registry, monitor, roundRobinIndex, sel, picks,
                   pair, del, lg, accepted>>

(* The backend answers the forwarded pair request without creating. *)
ServePairRefuse(r) ==
    /\ fwd.st = "sent"
    /\ fwd' = Served(r)
    /\ ev' = NoEvent
    /\ UNCHANGED <<accepted, deleting, config, registry, health, balancer,
                   pair, backend>>

(***************************************************************************)
(* Health monitor (services/healthMonitor.js).                             *)
(***************************************************************************)
(* performHealthChecks: one probe per backend, all issued before any       *)
(* answer is handled.                                                      *)
(* A variant of performHealthChecks that stops at the first backend. *)
performHealthChecksFirst == [id \in Servers |-> IF id = 1 THEN Sent ELSE Idle]

performHealthChecks == [id \in Servers |-> Sent]

HealthIdle == \A id \in Servers : hprobe[id] = Idle

(* The monitor: its two fields (healthCheckInterval: whether the field     *)
(* holds a timer handle) and the interval timers that are alive.           *)
Monitoring == [isMonitoring |-> TRUE, healthCheckInterval |-> TRUE, timers |-> 1]
NotMonitoring ==
    [isMonitoring |-> FALSE, healthCheckInterval |-> FALSE, timers |-> 0]

(* A variant of start without the test of isMonitoring. *)
startAlways ==
    /\ HealthIdle
    /\ monitor' = [isMonitoring |-> TRUE, healthCheckInterval |-> TRUE,
                   timers |-> monitor.timers + 1]
    /\ hprobe' = performHealthChecks
    /\ ev' = [op |-> "start", started |-> TRUE]
    /\ accepted' = accepted + 1
    /\ UNCHANGED <<deleting, config, registry, balancer, pairing, backend>>

(* start(): nothing when already monitoring; otherwise the first sweep is  *)
(* sent and the interval timer created.                                    *)
start ==
    /\ IF monitor.isMonitoring
       THEN /\ ev' = [op |-> "start", started |-> FALSE]
            /\ UNCHANGED health
       ELSE /\ HealthIdle
            /\ monitor' = [isMonitoring |-> TRUE, healthCheckInterval |-> TRUE,
                           timers |-> monitor.timers + 1]
            /\ hprobe' = performHealthChecks
            /\ ev' = [op |-> "start", started |-> TRUE]
    /\ accepted' = accepted + 1
    /\ UNCHANGED <<deleting, config, registry, balancer, pairing, backend>>

(* A variant of stop that also drops the probes in flight. *)
stopCancels ==
    /\ monitor' = [isMonitoring |-> FALSE, healthCheckInterval |-> FALSE,
                   timers |-> 0]
    /\ hprobe' = [id \in Servers |-> Idle]
    /\ ev' = [op |-> "stop", inFlight |-> {}]
    /\ accepted' = accepted + 1
    /\ UNCHANGED <<deleting, config, registry, balancer, pairing, backend>>

(* stop(): the timer the field names is cleared; probes in flight are not  *)
(* touched.                                                                *)
stop ==
    /\ monitor' = [isMonitoring |-> FALSE, healthCheckInterval |-> FALSE,
                   timers |-> IF monitor.healthCheckInterval
                              THEN monitor.timers - 1 ELSE monitor.timers]
    /\ ev' = [op |-> "stop", inFlight |-> {id \in Servers : hprobe[id] # Idle}]
    /\ accepted' = accepted + 1
    /\ UNCHANGED <<deleting, config, registry, hprobe, balancer, pairing,
                   backend>>

(* A variant of sweep for a timer that never fires. *)
sweepNever == FALSE /\ UNCHANGED vars

(* An interval timer fires. *)
sweep ==
    /\ monitor.timers > 0
    /\ HealthIdle
    /\ hprobe' = performHealthChecks
    /\ accepted' = accepted + 1
    /\ ev' = NoEvent
    /\ UNCHANGED <<deleting, config, registry, monitor, balancer, pairing,
                   backend>>

(* checkServerHealth, the answer is 200 with a session list. *)
checkServerHealthOk(id) ==
    /\ hprobe[id] # Idle
    /\ LET sessionCount == Cardinality(Answer(hprobe[id], id))
           newStatus == IF sessionCount >= MAX_SESSIONS_PER_SERVER
                        THEN FULL ELSE HEALTHY
       IN /\ servers' = updateServerStatus(servers, id, newStatus,
                                           CountData(sessionCount))
          /\ ev' = NoEvent
    /\ cacheStore' = CacheDelete(cacheStore, id)
    /\ hprobe' = [hprobe EXCEPT ![id] = Idle]
    /\ UNCHANGED <<accepted, deleting, config, sessionMap, monitor, balancer,
                   pairing, backend>>

(* checkServerHealth, a transport failure or an answer that is not 200. *)
checkServerHealthFail(id) ==
    /\ hprobe[id] # Idle
    /\ servers' = updateServerStatus(servers, id, UNHEALTHY, NoData)
    /\ cacheStore' = CacheDelete(cacheStore, id)
    /\ hprobe' = [hprobe EXCEPT ![id] = Idle]
    /\ ev' = NoEvent
    /\ UNCHANGED <<accepted, deleting, config, sessionMap, monitor, balancer,
                   pairing, backend>>

(* The answer of an admin request addressed to backend id. *)
AdminDone(op, id, status) == [op |-> op, id |-> id, status |-> status]

(* POST /servers/reset/:serverId: no lookup can throw, the answer is 200. *)
resetServerRequest(id) ==
    /\ servers' = resetServer(servers, id)
    /\ accepted' = accepted + 1
    /\ ev' = AdminDone("resetDone", id, 200)
    /\ UNCHANGED <<deleting, config, sessionMap, cacheStore, health, balancer,
                   pairing, backend>>

(* POST /health/check/:serverId: checkServer throws for an id that is not  *)
(* in the registry and the answer is 404; else the backend is probed like  *)
(* in a sweep (the 200 that follows the probe is not recorded).            *)
forceHealthCheck(id) ==
    /\ IF id \in DOMAIN servers
       THEN /\ hprobe[id] = Idle
            /\ hprobe' = [hprobe EXCEPT ![id] = Sent]
            /\ ev' = NoEvent
       ELSE /\ hprobe' = hprobe
            /\ ev' = AdminDone("checkDone", id, 404)
    /\ accepted' = accepted + 1
    /\ UNCHANGED <<deleting, config, registry, monitor, balancer, pairing,
                   backend>>

(***************************************************************************)
(* Load balancer: selectOptimalServer (services/loadBalancer.js).          *)
(***************************************************************************)
Pending == -1
NoSel == [caller |-> "none", active |-> {}, hadRoom |-> FALSE,
          counts |-> [id \in Servers |-> Pending]]

(* A variant of Classify that asks for some backend, not every one. *)
ClassifyAny(srv) ==
    IF \E id \in DOMAIN srv : srv[id].status = FULL
    THEN "ALL_FULL"
    ELSE IF \E id \in DOMAIN srv : srv[id].status = UNHEALTHY
    THEN "ALL_UNAVAILABLE"
    ELSE "NO_ACTIVE_SERVERS"

(* The error thrown when no backend is active, over the registry srv. *)
Classify(srv) ==
    IF DOMAIN srv # {} /\ \A id \in DOMAIN srv : srv[id].status = FULL
    THEN "ALL_FULL"
    ELSE IF DOMAIN srv # {} /\ \A id \in DOMAIN srv : srv[id].status = UNHEALTHY
    THEN "ALL_UNAVAILABLE"
    ELSE "NO_ACTIVE_SERVERS"

(* Element k (from 0) of a set of backends in registry order. *)
Nth(S, k) == CHOOSE x \in S : Cardinality({y \in S : y < x}) = k

(* A variant of Min that takes the largest element. *)
MinLargest(S) == CHOOSE m \in S : \A n \in S : m >= n

Min(S) == CHOOSE m \in S : \A n \in S : m <= n

(* A variant of NextCursor that does not advance. *)
NextCursorStuck(rr, k) == rr % k

(* The cursor moved over k tied backends. *)
NextCursor(rr, k) == (rr + 1) % k

(* A variant of Choose that takes the first active backend, whatever the   *)
(* counts.                                                                 *)
ChooseFirstActive(active, counts, rr, max) ==
    IF active = {}
    THEN [ok |-> FALSE, id |-> NoServer, msg |-> "ALL_FULL", rr |-> rr]
    ELSE [ok |-> TRUE, id |-> Nth(active, 0), msg |-> "", rr |-> rr]

(* The selection once every count is known: the backend returned, or the   *)
(* error, and the round-robin cursor afterwards.                           *)
Choose(active, counts, rr, max) ==
    LET availableServers == {id \in active : counts[id] < max}
        minSessions == Min({counts[id] : id \in availableServers})
        leastLoadedServers ==
            {id \in availableServers : counts[id] = minSessions}
        next == NextCursor(rr, Cardinality(leastLoadedServers))
    IN IF availableServers = {}
       THEN [ok |-> FALSE, id |-> NoServer, msg |-> "ALL_FULL", rr |-> rr]
       ELSE IF Cardinality(leastLoadedServers) > 1
       THEN [ok |-> TRUE, id |-> Nth(leastLoadedServers, next), msg |-> "",
             rr |-> next]
       ELSE [ok |-> TRUE, id |-> Nth(leastLoadedServers, 0), msg |-> "",
             rr |-> rr]

(* What a finished selection is remembered as. *)
Selection(s, counts, out) ==
    [caller |-> s.caller, active |-> s.active, hadRoom |-> s.hadRoom,
     counts |-> counts, ok |-> out.ok, id |-> out.id, msg |-> out.msg]

NoSelection == [caller |-> "none"]

(***************************************************************************)
(* handlePair and forwardRequest (controllers/apiController.js,            *)
(* services/loadBalancer.js).                                              *)
(***************************************************************************)
NoPair == [pc |-> "idle", selected |-> NoServer, target |-> NoServer,
           retries |-> 0, attempts |-> 0, err |-> "none", err0 |-> "none",
           up |-> NoResp, f0 |-> [id \in Servers |-> 0]]

(* The bodies handlePair answers with: the backend's answer as it came     *)
(* (res.json(backendResponse.data)), or createResponse(false, null, text)  *)
(* with, for the ALL_FULL text, the configured maximum in it.  (AsIsWrapped *)
(* is a variant of AsIs that puts the answer in an envelope.)              *)
AsIsWrapped(up) ==
    [origin |-> "gateway", data |-> up, error |-> "", n |-> 0]

AsIs(up) == [origin |-> "upstream", data |-> up, error |-> "", n |-> 0]
GatewayError(text, n) ==
    [origin |-> "gateway", data |-> NoResp, error |-> text, n |-> n]

(* A variant of selectionErrorMessage that keeps the default text. *)
selectionErrorMessageDefault(msg, max) == GatewayError("Service unavailable", 0)

(* The switch of handlePair over selectionError.message. *)
selectionErrorMessage(msg, max) ==
    IF msg = "ALL_FULL"
    THEN GatewayError("All API servers are full", max)
    ELSE IF msg = "ALL_UNAVAILABLE"
    THEN GatewayError("All backend servers are unavailable", 0)
    ELSE IF msg = "NO_ACTIVE_SERVERS"
    THEN GatewayError("No active backend servers available", 0)
    ELSE GatewayError("Service unavailable", 0)

(* The answer of handlePair: status and body, with what the request did    *)
(* (indexed: the session id it wrote in the session index, if any; err:    *)
(* the error of its latest failed attempt, which is the one forwardRequest *)
(* throws when it gives up; err0: the error of its first failed attempt,   *)
(* held by the outermost call of forwardRequest until an answer arrives).  *)
PairDone(p, status, body, indexed, selection) ==
    [op |-> "pairDone", status |-> status, body |-> body, indexed |-> indexed,
     selected |-> p.selected, target |-> p.target, attempts |-> p.attempts,
     up |-> p.up, err |-> p.err, err0 |-> p.err0, f0 |-> p.f0,
     selection |-> selection]

(* The caller of a finished selection goes on, in the same turn of the     *)
(* event loop: a direct caller has its answer, handlePair forwards the     *)
(* request (attempt 0) or answers 503, a retrying forwardRequest forwards  *)
(* to the new backend or throws its own transport error.                   *)
Resume(s, p, counts, out) ==
    LET S == Selection(s, counts, out) IN
    /\ sel' = NoSel
    /\ roundRobinIndex' = out.rr
    /\ IF s.caller = "direct"
       THEN /\ picks' = IF out.ok THEN Append(picks, out.id) ELSE picks
            /\ ev' = [op |-> "select", selection |-> S]
            /\ UNCHANGED pairing
       ELSE IF out.ok
       THEN /\ pair' = [p EXCEPT
                  !.pc = "forward",
                  !.selected = IF s.caller = "pair" THEN out.id ELSE @,
                  !.target = out.id,
                  !.retries = IF s.caller = "pair" THEN 0 ELSE @ + 1,
                  !.attempts = @ + 1]
            /\ fwd' = Sent
            /\ ev' = [op |-> "forward", selection |-> S]
            /\ UNCHANGED picks
       ELSE /\ pair' = NoPair
            /\ fwd' = Idle
            /\ ev' = IF s.caller = "pair"
                     THEN PairDone(p, 503,
                                   selectionErrorMessage(out.msg,
                                       MAX_SESSIONS_PER_SERVER),
                                   NoSession, S)
                     ELSE PairDone(p, 503,
                                   GatewayError("Backend server unavailable", 0),
                                   NoSession, S)
            /\ UNCHANGED picks

(* selectOptimalServer is called: the active backends are listed and each  *)
(* one's count asked for (a fresh cache entry answers at once).            *)
selectOptimalServer(caller, p) ==
    LET active == getActiveServers(servers)
        hit(id) == CacheGetValue(cacheStore, id, now)
        asked == {id \in active : hit(id) = null}
        counts == [id \in Servers |->
                     IF id \in active /\ hit(id) # null THEN hit(id) ELSE Pending]
        s == [caller |-> caller, active |-> active, counts |-> counts,
              hadRoom |-> \E id \in Servers :
                             /\ servers[id].status = HEALTHY
                             /\ servers[id].sessionCount < MAX_SESSIONS_PER_SERVER]
    IN /\ sel = NoSel
       /\ \A id \in Servers : cprobe[id] = Idle
       /\ cacheStore' = [id \in Servers |->
                           IF id \in active
                           THEN CacheGetStore(cacheStore, id, now)[id]
                           ELSE cacheStore[id]]
       /\ cprobe' = [id \in Servers |-> IF id \in asked THEN Sent ELSE Idle]
       /\ UNCHANGED <<servers, sessionMap>>
       /\ IF active = {}
          THEN Resume(s, p, counts,
                      [ok |-> FALSE, id |-> NoServer, msg |-> Classify(servers),
                       rr |-> roundRobinIndex])
          ELSE IF asked = {}
          THEN Resume(s, p, counts,
                      Choose(active, counts, roundRobinIndex,
                             MAX_SESSIONS_PER_SERVER))
          ELSE /\ sel' = s
               /\ pair' = p
               /\ ev' = NoEvent
               /\ UNCHANGED <<roundRobinIndex, picks, fwd>>

(* The selection goes on after one of its counts arrived. *)
Counted(id, n) ==
    LET counts == [sel.counts EXCEPT ![id] = n] IN
    IF \A a \in sel.active : counts[a] # Pending
    THEN Resume(sel, pair, counts,
                Choose(sel.active, counts, roundRobinIndex,
                       MAX_SESSIONS_PER_SERVER))
    ELSE /\ sel' = [sel EXCEPT !.counts = counts]
         /\ ev' = NoEvent
         /\ UNCHANGED <<roundRobinIndex, picks, pairing>>

(* getServerSessionCount of a selection, the probe answered. *)
selectCountOk(id) ==
    /\ sel.caller # "none"
    /\ cprobe[id] # Idle
    /\ LET list == Answer(cprobe[id], id) IN
       /\ servers' = CountOkServers(servers, id, list)
       /\ sessionMap' = CountOkMap(sessionMap, id, list)
       /\ cacheStore' = CountOkCache(cacheStore, id, list, now)
       /\ Counted(id, Cardinality(list))
    /\ cprobe' = [cprobe EXCEPT ![id] = Idle]
    /\ UNCHANGED <<accepted, deleting, config, health, backend>>

(* getServerSessionCount of a selection, the probe failed: the count is    *)
(* taken as Infinity.                                                      *)
selectCountFail(id, code) ==
    /\ sel.caller # "none"
    /\ MayFail(cprobe[id], code)
    /\ servers' = CountFailServers(servers, id, code)
    /\ cacheStore' = CountFailCache(cacheStore, id, code)
    /\ Counted(id, Infinity)
    /\ cprobe' = [cprobe EXCEPT ![id] = Idle]
    /\ UNCHANGED <<accepted, deleting, config, sessionMap, health, backend>>

(* A direct call of selectOptimalServer (no request around it). *)
selectDirect ==
    /\ pair.pc = "idle"
    /\ Len(picks) < MaxPicks
    /\ selectOptimalServer("direct", pair)
    /\ UNCHANGED <<accepted, deleting, config, health, backend>>

(* GET /pair/:number arrives: handlePair selects a backend. *)
handlePair ==
    /\ pair.pc = "idle"
    /\ selectOptimalServer("pair",
           [NoPair EXCEPT !.pc = "select",
                          !.f0 = [id \in Servers |-> servers[id].failures]])
    /\ accepted' = accepted + 1
    /\ UNCHANGED <<deleting, config, health, backend>>

(* Request paths (req.originalUrl), as sequences of pieces: a slash, the    *)
(* word pair, or another run of characters without a slash.  A path starts *)
(* with a slash.                                                           *)
PathPieces == {"/", "pair", "n"}
Paths ==
    {p \in UNION {[1..n -> PathPieces] : n \in 1..MaxPath} : p[1] = "/"}

(* The length of the longest run without a slash that starts at piece i. *)
RECURSIVE NoSlashRun(_, _)
NoSlashRun(p, i) ==
    IF i > Len(p) \/ p[i] = "/" THEN 0 ELSE 1 + NoSlashRun(p, i + 1)

(* A variant of MatchesPairPath without the anchor at the end. *)
MatchesPairPathUnanchored(p) ==
    /\ Len(p) >= 3
    /\ p[1] = "/" /\ p[2] = "pair" /\ p[3] = "/"
    /\ NoSlashRun(p, 4) >= 1

(* originalUrl.match(/^\/pair\/[^\/]+$/) *)
MatchesPairPath(p) ==
    /\ Len(p) >= 3
    /\ p[1] = "/" /\ p[2] = "pair" /\ p[3] = "/"
    /\ NoSlashRun(p, 4) >= 1
    /\ 3 + NoSlashRun(p, 4) = Len(p)

(* The path forwarded, and the target: the backend's url followed by it. *)
forwardPath(originalUrl) ==
    IF MatchesPairPath(originalUrl) THEN originalUrl \o <<"/">>
    ELSE originalUrl

targetUrl(id, originalUrl) == [url |-> id, path |-> forwardPath(originalUrl)]

(* forwardRequest called on its own with a request for originalUrl and     *)
(* backend id: the request sent.                                           *)
forwardDirect(id, originalUrl) ==
    /\ pair.pc = "idle"
    /\ fwd = Idle
    /\ fwd' = [st |-> "sent", server |-> id, originalUrl |-> originalUrl,
               targetUrl |-> targetUrl(id, originalUrl)]
    /\ ev' = NoEvent
    /\ UNCHANGED <<accepted, deleting, config, registry, health, balancer,
                   pair, backend>>

(* The backend answers it. *)
answerDirect ==
    /\ pair.pc = "idle"
    /\ fwd.st = "sent"
    /\ fwd' = Idle
    /\ ev' = NoEvent
    /\ UNCHANGED <<accepted, deleting, config, registry, health, balancer,
                   pair, backend>>

(* A variant of ForwardMarksUnhealthy that leaves an aborted request out. *)
ForwardMarksUnhealthyNoAbort(code) == code \in {ECONNREFUSED, ETIMEDOUT}

(* forwardRequest marks the backend on these error codes. *)
ForwardMarksUnhealthy(code) == code \in {ECONNREFUSED, ETIMEDOUT, ECONNABORTED}

(* A variant of MayRetry that allows one retry more. *)
MayRetryOnceMore(retryCount) == retryCount <= MAX_RETRIES

(* forwardRequest retries while retryCount < MAX_RETRIES. *)
MayRetry(retryCount) == retryCount < MAX_RETRIES

(* forwardRequest: the request failed at transport level.  The backend may *)
(* be marked; below MAX_RETRIES the call waits, then selects again.        *)
forwardFail(code) ==
    /\ pair.pc = "forward"
    /\ MayFail(fwd, code)
    /\ servers' = IF ForwardMarksUnhealthy(code)
                  THEN updateServerStatus(servers, pair.target, UNHEALTHY, NoData)
                  ELSE servers
    /\ cacheStore' = IF ForwardMarksUnhealthy(code)
                     THEN CacheDelete(cacheStore, pair.target)
                     ELSE cacheStore
    /\ fwd' = Idle
    /\ LET p == [pair EXCEPT !.err = code,
                             !.err0 = IF @ = "none" THEN code ELSE @]
       IN IF MayRetry(pair.retries)
          THEN /\ pair' = [p EXCEPT !.pc = "delay"]
               /\ ev' = NoEvent
          ELSE /\ pair' = NoPair
               /\ ev' = PairDone(p, 503,
                                 GatewayError("Backend server unavailable", 0),
                                 NoSession, NoSelection)
    /\ UNCHANGED <<accepted, deleting, config, sessionMap, health, balancer,
                   backend>>

(* The retry delay is over: forwardRequest selects a backend again. *)
retry ==
    /\ pair.pc = "delay"
    /\ selectOptimalServer("retry", [pair EXCEPT !.pc = "reselect"])
    /\ UNCHANGED <<accepted, deleting, config, health, backend>>

(* forwardRequest returns the backend's answer and handlePair goes on: an  *)
(* empty body is a 502, a body with an error field is answered with the    *)
(* error, ok:true starts the bookkeeping, anything else is passed on.      *)
forwardDeliver ==
    /\ pair.pc = "forward"
    /\ fwd.st = "served"
    /\ fwd' = Idle
    /\ LET up == fwd.body
           p == [pair EXCEPT !.up = up, !.err0 = "none"]
           hit == CacheGetValue(cacheStore, pair.selected, now)
       IN IF up.kind = "empty"
          THEN /\ pair' = NoPair
               /\ ev' = PairDone(p, 502,
                      GatewayError("Backend server returned empty response", 0),
                      NoSession, NoSelection)
               /\ UNCHANGED <<registry, cprobe>>
          ELSE IF up.kind = "error"
          THEN /\ pair' = NoPair
               /\ ev' = PairDone(p, IF up.status >= 400 THEN up.status ELSE 400,
                                 GatewayError("backendResponse.data.error", 0),
                                 NoSession, NoSelection)
               /\ UNCHANGED <<registry, cprobe>>
          ELSE IF up.kind = "ok"
          THEN /\ cacheStore' = CacheGetStore(cacheStore, pair.selected, now)
               /\ servers' = servers
               /\ IF hit # null
                  THEN /\ sessionMap' = [sessionMap EXCEPT ![up.sid] = pair.selected]
                       /\ pair' = NoPair
                       /\ ev' = PairDone(p, up.status, AsIs(up), up.sid,
                                         NoSelection)
                       /\ UNCHANGED cprobe
                  ELSE /\ cprobe' = [cprobe EXCEPT ![pair.selected] = Sent]
                       /\ pair' = [p EXCEPT !.pc = "book"]
                       /\ ev' = NoEvent
                       /\ UNCHANGED sessionMap
          ELSE /\ pair' = NoPair
               /\ ev' = PairDone(p, up.status, AsIs(up), NoSession,
                                 NoSelection)
               /\ UNCHANGED <<registry, cprobe>>
    /\ UNCHANGED <<accepted, deleting, config, health, roundRobinIndex, sel,
                   picks, backend>>

(* The bookkeeping count arrived: the index entry is written and the       *)
(* backend's answer returned.                                              *)
bookOk ==
    /\ pair.pc = "book"
    /\ cprobe[pair.selected] # Idle
    /\ LET id == pair.selected
           list == Answer(cprobe[id], id)
       IN /\ servers' = CountOkServers(servers, id, list)
          /\ sessionMap' = [CountOkMap(sessionMap, id, list)
                               EXCEPT ![pair.up.sid] = id]
          /\ cacheStore' = CountOkCache(cacheStore, id, list, now)
          /\ ev' = PairDone(pair, pair.up.status, AsIs(pair.up), pair.up.sid,
                            NoSelection)
    /\ cprobe' = [cprobe EXCEPT ![pair.selected] = Idle]
    /\ pair' = NoPair
    /\ UNCHANGED <<accepted, deleting, config, health, roundRobinIndex, sel,
                   picks, fwd, backend>>

(* The bookkeeping count failed: logged, the answer is returned anyway. *)
bookFail(code) ==
    /\ pair.pc = "book"
    /\ MayFail(cprobe[pair.selected], code)
    /\ servers' = CountFailServers(servers, pair.selected, code)
    /\ cacheStore' = CountFailCache(cacheStore, pair.selected, code)
    /\ ev' = PairDone(pair, pair.up.status, AsIs(pair.up), NoSession,
                      NoSelection)
    /\ cprobe' = [cprobe EXCEPT ![pair.selected] = Idle]
    /\ pair' = NoPair
    /\ UNCHANGED <<accepted, deleting, config, sessionMap, health,
                   roundRobinIndex, sel, picks,
                   fwd, backend>>

(***************************************************************************)
(* deleteSession (controllers/apiController.js) with findSessionServer and *)
(* deleteSessionFromServer (services/serverManager.js).                    *)
(***************************************************************************)
NoPrev == [status |-> 0, at |-> NoServer, owner0 |-> NoServer,
           clean |-> TRUE, fresh |-> FALSE, cached |-> FALSE, probes |-> 0]
NoDel == [pc |-> "idle", kind |-> "none", sid |-> NoSession, at |-> NoServer,
          owner0 |-> NoServer, clean |-> TRUE, fresh |-> FALSE,
          cached |-> FALSE, probes |-> 0, prev |-> NoPrev]

(* The backend that holds session x, NoServer when none does. *)
Holder(x) == IF Owner(x) = {} THEN NoServer ELSE CHOOSE b \in Owner(x) : TRUE

(* The answer of a request about session d.sid, with what the request met: *)
(* the backend findSessionServer named (at) and its cached flag, the       *)
(* GET /sessions it sent (probes), the backend that held the session when  *)
(* the request arrived (owner0), whether the session was then in neither   *)
(* the index nor an in-memory list (fresh), whether every exchange of the  *)
(* request was answered (clean), and the answer of the request of the same *)
(* kind for the same session that ended just before this one arrived       *)
(* (prev).                                                                 *)
SessionDone(op, d, status) ==
    [op |-> op, sid |-> d.sid, status |-> status, at |-> d.at,
     owner0 |-> d.owner0, clean |-> d.clean, fresh |-> d.fresh,
     cached |-> d.cached, probes |-> d.probes, prev |-> d.prev]

(* The answer of deleteSession. *)
DeleteDone(d, status) == SessionDone("deleteDone", d, status)

(* The answer of findSession: 200 with the backend and the cached flag, or *)
(* 404.                                                                    *)
FindDone(d, status) == SessionDone("findDone", d, status)

(* A request of the given kind ("delete", "find") about session x arrives. *)
Arrive(kind, x) ==
    [NoDel EXCEPT
        !.kind = kind, !.sid = x, !.owner0 = Holder(x),
        !.fresh = /\ sessionMap[x] = NoServer
                  /\ \A id \in Servers : x \notin servers[id].sessions,
        !.prev = IF /\ ev.op = IF kind = "find" THEN "findDone"
                                  ELSE "deleteDone"
                    /\ ev.sid = x
                 THEN [status |-> ev.status, at |-> ev.at,
                       owner0 |-> ev.owner0, clean |-> ev.clean,
                       fresh |-> ev.fresh, cached |-> ev.cached,
                       probes |-> ev.probes]
                 ELSE NoPrev]

(* A variant of sessionMapSet that leaves the index as it is. *)
sessionMapSetSkipped(map, x, id) == map

(* sessionMap.set(sessionId, serverId) *)
sessionMapSet(map, x, id) == [map EXCEPT ![x] = id]

(* findSessionServer returns backend k: findSession answers, deleteSession *)
(* sends the logout to k.                                                  *)
Found(d, k, cached, map) ==
    LET f == [d EXCEPT !.at = k, !.cached = cached] IN
    /\ fprobe' = Idle
    /\ sessionMap' = map
    /\ IF d.kind = "find"
       THEN /\ del' = NoDel
            /\ lg' = Idle
            /\ ev' = FindDone(f, 200)
       ELSE /\ del' = [f EXCEPT !.pc = "logout"]
            /\ lg' = Sent
            /\ ev' = NoEvent

(* findSessionServer returns null: both controllers answer 404. *)
NotFound(d, map) ==
    /\ del' = NoDel
    /\ fprobe' = Idle
    /\ lg' = Idle
    /\ sessionMap' = map
    /\ ev' = IF d.kind = "find"
             THEN FindDone([d EXCEPT !.at = NoServer], 404)
             ELSE DeleteDone([d EXCEPT !.at = NoServer], 404)

(* findSessionServer at backend k of the registry: past the last one the   *)
(* session is not found; a session in the backend's in-memory list is      *)
(* found there and indexed (cached: true); else the backend is asked.      *)
FindStep(d, k, map) ==
    IF k > NumServers
    THEN NotFound(d, map)
    ELSE IF d.sid \in servers'[k].sessions
    THEN Found(d, k, TRUE, sessionMapSet(map, d.sid, k))
    ELSE /\ del' = [d EXCEPT !.pc = "find", !.at = k, !.probes = @ + 1]
         /\ fprobe' = Sent
         /\ lg' = Idle
         /\ sessionMap' = map
         /\ ev' = NoEvent

(* findSessionServer is called: an index entry names the backend at once   *)
(* (cached: true), otherwise the backends are searched in registry order.  *)
findSessionServer(d) ==
    /\ del.pc = "idle"
    /\ servers' = servers
    /\ IF sessionMap[d.sid] # NoServer
       THEN Found(d, sessionMap[d.sid], TRUE, sessionMap)
       ELSE FindStep(d, 1, sessionMap)

(* DELETE /delete-session/:sessionId arrives. *)
deleteSession(x) ==
    /\ findSessionServer(Arrive("delete", x))
    /\ accepted' = accepted + 1
    /\ UNCHANGED <<config, cacheStore, health, balancer, pairing, backend>>

(* GET /find-session/:sessionId arrives. *)
findSession(x) ==
    /\ findSessionServer(Arrive("find", x))
    /\ accepted' = accepted + 1
    /\ UNCHANGED <<config, cacheStore, health, balancer, pairing, backend>>

(* findSessionServer: the backend answered with its session list. *)
findOk ==
    /\ del.pc = "find"
    /\ fprobe # Idle
    /\ LET list == Answer(fprobe, del.at) IN
       /\ servers' = [servers EXCEPT ![del.at].sessions = list]
       /\ IF del.sid \in list
          THEN Found(del, del.at, FALSE,
                     sessionMapSet(sessionMap, del.sid, del.at))
          ELSE FindStep(del, del.at + 1, sessionMap)
    /\ UNCHANGED <<accepted, config, cacheStore, health, balancer, pairing,
                   backend>>

(* findSessionServer: the probe failed, the search goes on. *)
findFail(code) ==
    /\ del.pc = "find"
    /\ MayFail(fprobe, code)
    /\ servers' = servers
    /\ FindStep([del EXCEPT !.clean = FALSE], del.at + 1, sessionMap)
    /\ UNCHANGED <<accepted, config, cacheStore, health, balancer, pairing,
                   backend>>

(* The backend serves POST /logout/<sid>: it drops the session, or answers *)
(* 404 when it does not hold it.                                           *)
ServeLogout ==
    /\ lg = Sent
    /\ IF del.sid \in backend[del.at]
       THEN /\ backend' = [backend EXCEPT ![del.at] = @ \ {del.sid}]
            /\ Overtake(del.at)
            /\ lg' = Served(200)
       ELSE /\ lg' = Served(404)
            /\ UNCHANGED <<backend, hprobe, cprobe, fprobe>>
    /\ ev' = NoEvent
    /\ UNCHANGED <<accepted, config, registry, monitor, roundRobinIndex, sel,
                   picks, pairing, del>>

(* A variant of sessionMapDelete that leaves the index as it is. *)
sessionMapDeleteSkipped(map, x) == map

(* sessionMap.delete(sessionId) *)
sessionMapDelete(map, x) == [map EXCEPT ![x] = NoServer]

(* A variant of deleteSessionFromServer that decrements without a floor. *)
deleteSessionFromServerNoFloor(srv, id, x) ==
    [srv EXCEPT ![id] =
        [@ EXCEPT !.deletedSessions = @ + 1,
                  !.sessions = @ \ {x},
                  !.sessionCount = @ - 1]]

(* deleteSessionFromServer after a 2xx answer. *)
deleteSessionFromServer(srv, id, x) ==
    [srv EXCEPT ![id] =
        [@ EXCEPT !.deletedSessions = @ + 1,
                  !.sessions = @ \ {x},
                  !.sessionCount = IF @ > 0 THEN @ - 1 ELSE @]]

logoutOk ==
    /\ del.pc = "logout"
    /\ lg = Served(200)
    /\ servers' = deleteSessionFromServer(servers, del.at, del.sid)
    /\ sessionMap' = sessionMapDelete(sessionMap, del.sid)
    /\ cacheStore' = CacheDelete(cacheStore, del.at)
    /\ del' = NoDel
    /\ lg' = Idle
    /\ ev' = DeleteDone(del, 200)
    /\ UNCHANGED <<accepted, config, health, balancer, pairing, fprobe,
                   backend>>

(* A variant of logoutNotFound that leaves the index entry in place. *)
logoutNotFoundKeepsHint ==
    /\ del.pc = "logout"
    /\ lg = Served(404)
    /\ servers' = [servers EXCEPT ![del.at].sessions = @ \ {del.sid}]
    /\ del' = NoDel
    /\ lg' = Idle
    /\ ev' = DeleteDone(del, 404)
    /\ UNCHANGED <<accepted, config, sessionMap, cacheStore, health, balancer,
                   pairing, fprobe, backend>>

(* The backend answered 404: the local entries are dropped, the 404 is     *)
(* the answer.                                                             *)
logoutNotFound ==
    /\ del.pc = "logout"
    /\ lg = Served(404)
    /\ servers' = [servers EXCEPT ![del.at].sessions = @ \ {del.sid}]
    /\ sessionMap' = sessionMapDelete(sessionMap, del.sid)
    /\ del' = NoDel
    /\ lg' = Idle
    /\ ev' = DeleteDone(del, 404)
    /\ UNCHANGED <<accepted, config, cacheStore, health, balancer, pairing,
                   fprobe, backend>>

(* The logout failed at transport level: 503 on a refused or timed-out     *)
(* connection, 500 otherwise.                                              *)
logoutFail(code) ==
    /\ del.pc = "logout"
    /\ MayFail(lg, code)
    /\ del' = NoDel
    /\ lg' = Idle
    /\ ev' = DeleteDone([del EXCEPT !.clean = FALSE],
                        IF code \in {ECONNREFUSED, ETIMEDOUT} THEN 503 ELSE 500)
    /\ UNCHANGED <<accepted, config, registry, health, balancer, pairing,
                   fprobe, backend>>

(***************************************************************************)
(* Specification.                                                          *)
(***************************************************************************)
(* The backends hold any sessions when the gateway starts; a session is    *)
(* held by at most one backend.                                            *)
InitBackend ==
    /\ backend \in [Servers -> SUBSET Sessions]
    /\ \A a, b \in Servers : a # b => backend[a] \cap backend[b] = {}

(* The services as constructed (index.js:54-58). *)
Constructed ==
    /\ MAX_SESSIONS_PER_SERVER \in 1..MaxCapacity
    /\ servers = initializeServers
    /\ sessionMap = [x \in Sessions |-> NoServer]
    /\ cacheStore = [id \in Servers |-> NoEntry]
    /\ now = 0
    /\ InitBackend
    /\ sel = NoSel
    /\ cprobe = [id \in Servers |-> Idle]
    /\ pair = NoPair
    /\ fwd = Idle
    /\ picks = <<>>
    /\ del = NoDel
    /\ fprobe = Idle
    /\ lg = Idle
    /\ accepted = 0
    /\ ev = NoEvent

(* The gateway once index.js has run: the monitor is started (index.js:61) *)
(* before any request is accepted, its first sweep is in flight.           *)
Init ==
    /\ Constructed
    /\ roundRobinIndex = 0
    /\ monitor = Monitoring
    /\ hprobe = performHealthChecks

(* The model's bound on the counters of the registry, put on every step. *)
Within(n, r) ==
    /\ accepted <= r
    /\ \A id \in Servers : servers[id].healthChecks <= n

(* No request and no sweep is in progress. *)
Quiet ==
    /\ pair.pc = "idle"
    /\ sel = NoSel
    /\ fwd = Idle
    /\ del.pc = "idle"
    /\ fprobe = Idle
    /\ lg = Idle
    /\ \A id \in Servers : hprobe[id] = Idle /\ cprobe[id] = Idle

Cap == Within(MaxChecks, MaxRequests)
CapSeq == Within(MaxChecksSeq, MaxRequestsSeq)

(* Pair requests, resets, sweeps and their answers in any interleaving. *)
Next ==
    \/ sweep /\ Cap'
    \/ \E id \in Servers : checkServerHealthOk(id) /\ Cap'
    \/ \E id \in Servers : checkServerHealthFail(id) /\ Cap'
    \/ \E id \in Servers : resetServerRequest(id) /\ Cap'
    \/ handlePair /\ Cap'
    \/ \E x \in Sessions : ServePairCreate(x) /\ Cap'
    \/ \E r \in Refusals : ServePairRefuse(r) /\ Cap'
    \/ \E id \in Servers : selectCountOk(id) /\ Cap'
    \/ \E id \in Servers, code \in ErrorCodes :
          selectCountFail(id, code) /\ Cap'
    \/ \E code \in ErrorCodes : forwardFail(code) /\ Cap'
    \/ retry /\ Cap'
    \/ forwardDeliver /\ Cap'
    \/ bookOk /\ Cap'
    \/ \E code \in ErrorCodes : bookFail(code) /\ Cap'

Spec == Init /\ [][Next]_vars

(* A fresh deployment: the backends hold no session yet. *)
InitSeq ==
    /\ Init
    /\ \A id \in Servers : backend[id] = {}

(* One request or sweep at a time, each run to its end before the next. *)
NextSeq ==
    \/ Quiet /\ sweep /\ CapSeq'
    \/ \E id \in Servers : checkServerHealthOk(id) /\ CapSeq'
    \/ \E id \in Servers : checkServerHealthFail(id) /\ CapSeq'
    \/ \E id \in Servers : Quiet /\ resetServerRequest(id) /\ CapSeq'
    \/ Quiet /\ handlePair /\ CapSeq'
    \/ \E x \in Sessions : ServePairCreate(x) /\ CapSeq'
    \/ \E r \in Refusals : ServePairRefuse(r) /\ CapSeq'
    \/ \E id \in Servers : selectCountOk(id) /\ CapSeq'
    \/ \E id \in Servers, code \in ErrorCodes :
          selectCountFail(id, code) /\ CapSeq'
    \/ \E code \in ErrorCodes : forwardFail(code) /\ CapSeq'
    \/ retry /\ CapSeq'
    \/ forwardDeliver /\ CapSeq'
    \/ bookOk /\ CapSeq'
    \/ \E code \in ErrorCodes : bookFail(code) /\ CapSeq'
    \/ \E x \in Sessions : Quiet /\ deleteSession(x) /\ CapSeq'
    \/ findOk /\ CapSeq'
    \/ \E code \in ErrorCodes : findFail(code) /\ CapSeq'
    \/ ServeLogout /\ CapSeq'
    \/ logoutOk /\ CapSeq'
    \/ logoutNotFound /\ CapSeq'
    \/ \E code \in ErrorCodes : logoutFail(code) /\ CapSeq'

SpecSeq == InitSeq /\ [][NextSeq]_vars

(* The load balancer on its own: consecutive selectOptimalServer calls     *)
(* over backends that are all HEALTHY, hold equally many sessions, fewer   *)
(* than MAX_SESSIONS_PER_SERVER, and answer every probe; no monitor, no    *)
(* request.  The cursor starts anywhere.                                   *)
InitRR ==
    /\ Constructed
    /\ roundRobinIndex \in 0..MaxCursor
    /\ monitor = NotMonitoring
    /\ hprobe = [id \in Servers |-> Idle]
    /\ \A a, b \in Servers : Cardinality(backend[a]) = Cardinality(backend[b])
    /\ \A a \in Servers : Cardinality(backend[a]) < MAX_SESSIONS_PER_SERVER

NextRR ==
    \/ selectDirect
    \/ \E id \in Servers : selectCountOk(id)

SpecRR == InitRR /\ [][NextRR]_vars

(* The session operations: find and delete requests, one at a time, over   *)
(* backends holding any sessions, with the health monitor running beside   *)
(* them.                                                                   *)
CapFind == Within(MaxChecksFind, MaxRequestsFind)

NextFind ==
    \/ sweep /\ CapFind'
    \/ \E id \in Servers : checkServerHealthOk(id) /\ CapFind'
    \/ \E id \in Servers : checkServerHealthFail(id) /\ CapFind'
    \/ \E x \in Sessions : findSession(x) /\ CapFind'
    \/ \E x \in Sessions : deleteSession(x) /\ CapFind'
    \/ findOk /\ CapFind'
    \/ \E code \in ErrorCodes : findFail(code) /\ CapFind'
    \/ ServeLogout /\ CapFind'
    \/ logoutOk /\ CapFind'
    \/ logoutNotFound /\ CapFind'
    \/ \E code \in ErrorCodes : logoutFail(code) /\ CapFind'

SpecFind == Init /\ [][NextFind]_vars

(* Delete requests beside direct selections, whose session-count probes    *)
(* run while a delete is under way; the count probes are answered, and no  *)
(* monitor runs.                                                           *)
InitRace ==
    /\ Constructed
    /\ roundRobinIndex = 0
    /\ monitor = NotMonitoring
    /\ hprobe = [id \in Servers |-> Idle]

CapRace == Within(MaxChecksRace, MaxRequestsRace)

NextRace ==
    \/ selectDirect /\ CapRace'
    \/ \E id \in Servers : selectCountOk(id) /\ CapRace'
    \/ \E x \in Sessions : deleteSession(x) /\ CapRace'
    \/ findOk /\ CapRace'
    \/ \E code \in ErrorCodes : findFail(code) /\ CapRace'
    \/ ServeLogout /\ CapRace'
    \/ logoutOk /\ CapRace'
    \/ logoutNotFound /\ CapRace'
    \/ \E code \in ErrorCodes : logoutFail(code) /\ CapRace'

SpecRace == InitRace /\ [][NextRace]_vars

(* The admin operations, addressed to any id, beside the health monitor. *)
CapAdmin == Within(MaxChecksAdmin, MaxRequestsAdmin)

NextAdmin ==
    \/ sweep /\ CapAdmin'
    \/ \E id \in Servers : checkServerHealthOk(id) /\ CapAdmin'
    \/ \E id \in Servers : checkServerHealthFail(id) /\ CapAdmin'
    \/ \E id \in AdminIds : resetServerRequest(id) /\ CapAdmin'
    \/ \E id \in AdminIds : forceHealthCheck(id) /\ CapAdmin'

SpecAdmin == Init /\ [][NextAdmin]_vars

(* forwardRequest on its own, for any request path and backend. *)
NextFwd ==
    \/ \E id \in Servers, u \in Paths : forwardDirect(id, u)
    \/ answerDirect

SpecFwd == Init /\ [][NextFwd]_vars

(* The health monitor on its own, started and stopped at will, from the    *)
(* services as constructed (the monitor not yet started).                  *)
InitMon ==
    /\ Constructed
    /\ roundRobinIndex = 0
    /\ monitor = NotMonitoring
    /\ hprobe = [id \in Servers |-> Idle]

CapMon == Within(MaxChecksMon, MaxCallsMon)

NextMon ==
    \/ start /\ CapMon'
    \/ stop /\ CapMon'
    \/ sweep /\ CapMon'
    \/ \E id \in Servers : checkServerHealthOk(id) /\ CapMon'
    \/ \E id \in Servers : checkServerHealthFail(id) /\ CapMon'

SpecMon == InitMon /\ [][NextMon]_vars

(* Recovery.  The registry after the first sweep, in which each backend    *)
(* failed (UNHEALTHY), listed MAX_SESSIONS_PER_SERVER sessions or more     *)
(* (FULL) or fewer (HEALTHY); since then every backend holds fewer than    *)
(* MAX_SESSIONS_PER_SERVER sessions and answers every probe.  The monitor  *)
(* is running, between two sweeps.                                         *)
FirstSweepDone(id) ==
    /\ servers[id].status \in STATUS
    /\ servers[id].isActive = (servers[id].status = HEALTHY)
    /\ servers[id].sessionCount \in
          IF servers[id].status = UNHEALTHY THEN {0}
          ELSE IF servers[id].status = FULL
          THEN MAX_SESSIONS_PER_SERVER..MaxCapacity
          ELSE 0..(MAX_SESSIONS_PER_SERVER - 1)
    /\ servers[id].sessions = {}
    /\ servers[id].healthChecks = 1
    /\ servers[id].failures = IF servers[id].status = UNHEALTHY THEN 1 ELSE 0
    /\ servers[id].deletedSessions = 0

InitLive ==
    /\ MAX_SESSIONS_PER_SERVER \in 1..MaxCapacity
    /\ InitBackend
    /\ \A id \in Servers : Cardinality(backend[id]) < MAX_SESSIONS_PER_SERVER
    /\ servers \in [Servers -> [status : STATUS, sessionCount : 0..MaxCapacity,
                                isActive : BOOLEAN, sessions : {{}},
                                healthChecks : {1}, failures : {0, 1},
                                deletedSessions : {0}]]
    /\ \A id \in Servers : FirstSweepDone(id)
    /\ sessionMap = [x \in Sessions |-> NoServer]
    /\ cacheStore = [id \in Servers |-> NoEntry]
    /\ now = 0
    /\ roundRobinIndex = 0
    /\ monitor = Monitoring
    /\ hprobe = [id \in Servers |-> Idle]
    /\ sel = NoSel
    /\ cprobe = [id \in Servers |-> Idle]
    /\ pair = NoPair
    /\ fwd = Idle
    /\ picks = <<>>
    /\ del = NoDel
    /\ fprobe = Idle
    /\ lg = Idle
    /\ accepted = 0
    /\ ev = NoEvent

CapLive == Within(MaxChecksLive, MaxSweepsLive)

NextLive ==
    \/ sweep /\ CapLive'
    \/ \E id \in Servers : checkServerHealthOk(id) /\ CapLive'

(* The timer fires again and again, and every probe sent is answered. *)
SpecLive ==
    /\ InitLive
    /\ [][NextLive]_vars
    /\ WF_vars(sweep /\ CapLive')
    /\ \A id \in Servers : WF_vars(checkServerHealthOk(id) /\ CapLive')

(* The cache on its own, on a fresh deployment. *)
NextCache ==
    \/ \E key \in Servers, value \in 0..MaxCapacity, ttl \in 1..MaxTtl :
          cacheSet(key, value, ttl)
    \/ \E key \in Servers : cacheGet(key)
    \/ \E key \in Servers : cacheDelete(key)
    \/ tick

SpecCache == InitSeq /\ [][NextCache]_vars

(***************************************************************************)
(* Properties.                                                             *)
(***************************************************************************)
(* The selection that ended with the step just taken, if one did. *)
Ended ==
    IF ev.op \in {"select", "forward", "pairDone"} THEN ev.selection
    ELSE NoSelection

Returned == Ended.caller # "none" /\ Ended.ok

(* C1: in every reachable state every backend has isActive exactly when    *)
(* its status is HEALTHY.                                                  *)
C1_ActiveIffHealthy ==
    \A id \in Servers : servers[id].isActive <=> servers[id].status = HEALTHY

(* A FULL and an UNHEALTHY backend side by side, after a deletion. *)
C1_Witness ==
    \E a, b \in Servers :
        /\ servers[a].status = FULL /\ ~servers[a].isActive
        /\ servers[b].status = UNHEALTHY /\ ~servers[b].isActive
        /\ \E c \in Servers : servers[c].deletedSessions > 0

(* C2: whenever selectOptimalServer returns a backend, that backend's      *)
(* status is HEALTHY at the moment of return, whatever happened while the  *)
(* selection waited for its session-count probes.                          *)
C2_ReturnsHealthy ==
    Returned => servers[Ended.id].status = HEALTHY

(* C3 as stated: if some backend is HEALTHY with sessionCount below        *)
(* MAX_SESSIONS_PER_SERVER when selectOptimalServer is called, the call    *)
(* returns a backend that is HEALTHY with a count below the maximum.       *)
C3_AsStated ==
    (Ended.caller # "none" /\ Ended.hadRoom) =>
        /\ Ended.ok
        /\ servers[Ended.id].status = HEALTHY
        /\ Ended.counts[Ended.id] < MAX_SESSIONS_PER_SERVER

(* C3, amended: if some backend that is active when selectOptimalServer is *)
(* called answers the call's session-count probe with a count below        *)
(* MAX_SESSIONS_PER_SERVER, the call does not fail: it returns a backend   *)
(* that was active at the call and whose probed count is below the maximum.*)
C3_ReturnsRoom ==
    (/\ Ended.caller # "none"
     /\ \E a \in Ended.active : Ended.counts[a] < MAX_SESSIONS_PER_SERVER) =>
        /\ Ended.ok
        /\ Ended.id \in Ended.active
        /\ Ended.counts[Ended.id] < MAX_SESSIONS_PER_SERVER

(* A selection returned a backend while the probe of another active one    *)
(* had failed.                                                             *)
C3_Witness ==
    /\ Returned
    /\ Ended.hadRoom
    /\ \E a \in Ended.active : Ended.counts[a] = Infinity
    /\ Ended.counts[Ended.id] < MAX_SESSIONS_PER_SERVER

(* The backends returned by n consecutive selections over the tied set S,  *)
(* each with count c, the cursor starting at rr.                           *)
RECURSIVE Visited(_, _, _, _, _)
Visited(S, c, rr, max, n) ==
    IF n = 0 THEN {}
    ELSE LET out == Choose(S, [id \in S |-> c], rr, max)
         IN {out.id} \cup Visited(S, c, out.rr, max, n - 1)

(* C4: given K >= 2 HEALTHY backends with identical probed counts below    *)
(* the maximum and no other change, any K consecutive selections return    *)
(* each of the K backends exactly once, from every cursor value: in the    *)
(* calls made (picks), and for every tied subset of MaxTied backends.      *)
C4_RoundRobin ==
    /\ \A i \in 1..Len(picks) :
          i + NumServers - 1 <= Len(picks) =>
              {picks[j] : j \in i..(i + NumServers - 1)} = Servers
    /\ \A S \in SUBSET (1..MaxTied) :
          Cardinality(S) >= 2 =>
              \A c \in 0..(MAX_SESSIONS_PER_SERVER - 1) :
                  Visited(S, c, roundRobinIndex, MAX_SESSIONS_PER_SERVER,
                          Cardinality(S)) = S

(* More than K selections were made. *)
C4_Witness ==
    /\ Len(picks) > NumServers
    /\ \A id \in Servers : servers[id].status = HEALTHY

(* C5: one forwardRequest call sends at most MAX_RETRIES + 1 requests to   *)
(* backends, retries included.                                             *)
C5_RetryBound == pair.attempts <= MAX_RETRIES + 1

(* The last allowed attempt is in flight. *)
C5_Witness ==
    /\ pair.pc = "forward"
    /\ fwd = Sent
    /\ pair.attempts = MAX_RETRIES + 1

(* C6: two delete requests in sequence for a session that a backend holds, *)
(* every exchange of both answered: the first answers success, the second  *)
(* 404, and the session index has no entry for the session afterwards.     *)
C6_DeleteTwice ==
    (/\ ev.op = "deleteDone"
     /\ ev.prev.status # 0
     /\ ev.prev.owner0 # NoServer
     /\ ev.prev.clean
     /\ ev.clean) =>
        /\ ev.prev.status = 200
        /\ ev.status = 404
        /\ sessionMap[ev.sid] = NoServer

(* A probe of backend id that observes C sessions leaves sessionCount = C  *)
(* and the status FULL when C >= MAX_SESSIONS_PER_SERVER, HEALTHY if not.  *)
Converged(id, C) ==
    /\ servers'[id].sessionCount = C
    /\ servers'[id].status =
          IF C >= MAX_SESSIONS_PER_SERVER THEN FULL ELSE HEALTHY

(* C7: right after a successful probe of a backend, by the health monitor  *)
(* or by getServerSessionCount, the backend's sessionCount is the count    *)
(* observed and its status follows from that count alone.                  *)
C7_ProbeConvergence ==
    [][\A id \in Servers :
          /\ checkServerHealthOk(id) =>
                Converged(id, Cardinality(Answer(hprobe[id], id)))
          /\ (selectCountOk(id) \/ (bookOk /\ pair.selected = id)) =>
                Converged(id, Cardinality(Answer(cprobe[id], id)))]_vars

(* C8: a HEALTHY backend never has sessionCount above                      *)
(* MAX_SESSIONS_PER_SERVER, and a probe that observes a count at or above  *)
(* the maximum moves the backend to FULL.                                  *)
C8_HealthyWithinCapacity ==
    /\ [](\A id \in Servers :
            servers[id].status = HEALTHY =>
                servers[id].sessionCount <= MAX_SESSIONS_PER_SERVER)
    /\ [][\A id \in Servers :
            (/\ \/ selectCountOk(id)
                \/ bookOk /\ pair.selected = id
                \/ checkServerHealthOk(id)
             /\ servers'[id].sessionCount >= MAX_SESSIONS_PER_SERVER) =>
                servers'[id].status = FULL]_vars

(* A pair request ended after failing over: its first attempt, to the      *)
(* backend selected by handlePair, was refused, its second, to another     *)
(* backend, was answered ok:true.                                          *)
FailedOver ==
    /\ ev.op = "pairDone"
    /\ ev.attempts = 2
    /\ ev.err = ECONNREFUSED
    /\ ev.target # ev.selected
    /\ ev.up.kind = "ok"

(* C9: in that scenario the refused backend is UNHEALTHY, the request is   *)
(* answered as a success and the refused backend's failures counter is     *)
(* exactly one above its value when the request arrived.                   *)
C9_FailoverCountsOnce ==
    FailedOver =>
        /\ ev.status = 200
        /\ servers[ev.selected].status = UNHEALTHY
        /\ servers[ev.selected].failures = ev.f0[ev.selected] + 1

(* C10: after a pair request answered ok:true whose bookkeeping wrote the  *)
(* index, the index maps the session id to the backend that produced the   *)
(* answer, also when that backend was chosen by a retry.                   *)
C10_IndexesProducer ==
    (/\ ev.op = "pairDone"
     /\ ev.up.kind = "ok"
     /\ ev.indexed # NoSession) =>
        sessionMap[ev.up.sid] = ev.target

(* C11: every entry of the session index names a backend of the registry,  *)
(* in every reachable state.                                               *)
C11_IndexNamesBackend ==
    \A x \in Sessions :
        sessionMap[x] # NoServer => sessionMap[x] \in DOMAIN servers

(* Two sessions are indexed, under different backends. *)
C11_Witness ==
    \E x, y \in Sessions :
        /\ sessionMap[x] # NoServer
        /\ sessionMap[y] # NoServer
        /\ sessionMap[x] # sessionMap[y]

(* C12: no step of any operation (status updates, probes, forwards,        *)
(* deletes, resets) decreases a backend's healthChecks, failures or        *)
(* deletedSessions counter.                                                *)
C12_CountersNeverDecrease ==
    [][\A id \in Servers :
          /\ servers'[id].healthChecks >= servers[id].healthChecks
          /\ servers'[id].failures >= servers[id].failures
          /\ servers'[id].deletedSessions >= servers[id].deletedSessions]_vars

(* A backend that failed and deleted a session is HEALTHY again. *)
C12_Witness ==
    \E id \in Servers :
        /\ servers[id].healthChecks > 1
        /\ servers[id].failures > 0
        /\ servers[id].deletedSessions > 0
        /\ servers[id].status = HEALTHY

(* C13: a session that lives on a backend and is in neither the index nor  *)
(* an in-memory list is found on that backend by the first findSession     *)
(* with cached = false, after probing; the findSession that follows is     *)
(* answered with the same backend, cached = true, and sends no probe.      *)
(* (Every probe of the first request is answered.)                         *)
C13_FindThenCached ==
    (/\ ev.op = "findDone"
     /\ ev.prev.status # 0
     /\ ev.prev.fresh
     /\ ev.prev.owner0 # NoServer
     /\ ev.prev.clean) =>
        /\ ev.prev.status = 200
        /\ ev.prev.at = ev.prev.owner0
        /\ ~ev.prev.cached
        /\ ev.prev.probes > 0
        /\ ev.status = 200
        /\ ev.at = ev.prev.owner0
        /\ ev.cached
        /\ ev.probes = 0

(* The second of two findSession requests has answered; the first found    *)
(* the session on the last backend of the registry, after asking each one. *)
C13_Witness ==
    /\ ev.op = "findDone"
    /\ ev.prev.status = 200
    /\ ev.prev.fresh
    /\ ev.prev.clean
    /\ ev.prev.owner0 = NumServers
    /\ ev.prev.probes = NumServers
    /\ ev.cached
    /\ ev.probes = 0

(* C14: a successful deleteSessionFromServer(B, s), the index and          *)
(* B.sessions containing s, leaves neither containing s, decreases         *)
(* B.sessionCount by exactly 1 unless it is 0 (then it stays 0) and        *)
(* increases B.deletedSessions by exactly 1.                               *)
C14_DeleteBookkeeping ==
    [][(/\ logoutOk
        /\ sessionMap[del.sid] # NoServer
        /\ del.sid \in servers[del.at].sessions) =>
           LET B == del.at
               s == del.sid
           IN /\ sessionMap'[s] = NoServer
              /\ s \notin servers'[B].sessions
              /\ servers'[B].sessionCount =
                    IF servers[B].sessionCount = 0 THEN 0
                    ELSE servers[B].sessionCount - 1
              /\ servers'[B].deletedSessions =
                    servers[B].deletedSessions + 1]_vars

(* A delete has just succeeded on a backend whose count was above 1. *)
C14_Witness ==
    /\ ev.op = "deleteDone"
    /\ ev.status = 200
    /\ ev.at = ev.owner0
    /\ servers[ev.at].sessionCount >= 1
    /\ servers[ev.at].deletedSessions = 1
    /\ sessionMap[ev.sid] = NoServer
    /\ ev.sid \notin servers[ev.at].sessions

AllFull(srv) == \A id \in DOMAIN srv : srv[id].status = FULL
AllUnhealthy(srv) == \A id \in DOMAIN srv : srv[id].status = UNHEALTHY

(* C15: when every backend reports MAX_SESSIONS_PER_SERVER sessions or     *)
(* more, the health probe moves it to FULL; a pair request that then finds *)
(* every backend FULL fails its selection with ALL_FULL and is answered    *)
(* 503 with the "All API servers are full (MAX/MAX)" text, no request      *)
(* having been forwarded to a backend.                                     *)
C15_AllFullAnswer ==
    /\ [](( /\ ev.op = "pairDone"
            /\ Ended.caller = "pair"
            /\ Ended.active = {}
            /\ AllFull(servers)) =>
               /\ Ended.msg = "ALL_FULL"
               /\ ev.status = 503
               /\ ev.body.origin = "gateway"
               /\ ev.body.error = "All API servers are full"
               /\ ev.body.n = MAX_SESSIONS_PER_SERVER
               /\ ev.attempts = 0
               /\ fwd = Idle)
    /\ [][\A id \in Servers :
            (/\ checkServerHealthOk(id)
             /\ Cardinality(Answer(hprobe[id], id)) >=
                    MAX_SESSIONS_PER_SERVER) =>
                /\ servers'[id].status = FULL
                /\ ~servers'[id].isActive]_vars

(* A pair request has been answered 503 while every backend was FULL, each *)
(* with a count at the maximum or above.                                   *)
C15_Witness ==
    /\ ev.op = "pairDone"
    /\ Ended.caller = "pair"
    /\ Ended.active = {}
    /\ ev.status = 503
    /\ \A id \in Servers :
          /\ servers[id].status = FULL
          /\ servers[id].sessionCount >= MAX_SESSIONS_PER_SERVER

(* C16: a selection that finds no active backend fails with ALL_FULL       *)
(* exactly when every backend is FULL, with ALL_UNAVAILABLE exactly when   *)
(* every backend is UNHEALTHY, and with NO_ACTIVE_SERVERS otherwise (a mix *)
(* of both, or an empty registry): in the selections made, and for every   *)
(* registry of up to MaxRegistry backends that are FULL or UNHEALTHY.      *)
C16_Classification ==
    /\ (Ended.caller # "none" /\ Ended.active = {}) =>
          /\ ~Ended.ok
          /\ Ended.msg = "ALL_FULL" <=> AllFull(servers)
          /\ Ended.msg = "ALL_UNAVAILABLE" <=> AllUnhealthy(servers)
          /\ Ended.msg = "NO_ACTIVE_SERVERS" <=>
                (~AllFull(servers) /\ ~AllUnhealthy(servers))
    /\ \A n \in 0..MaxRegistry :
          \A f \in [1..n -> {FULL, UNHEALTHY}] :
              LET srv == [id \in 1..n |-> [status |-> f[id]]]
                  msg == Classify(srv)
              IN /\ msg = "ALL_FULL" <=> (n > 0 /\ AllFull(srv))
                 /\ msg = "ALL_UNAVAILABLE" <=> (n > 0 /\ AllUnhealthy(srv))
                 /\ msg = "NO_ACTIVE_SERVERS" <=>
                       \/ n = 0
                       \/ ~AllFull(srv) /\ ~AllUnhealthy(srv)

(* A selection has failed over a FULL and an UNHEALTHY backend. *)
C16_Witness ==
    /\ Ended.caller # "none"
    /\ Ended.active = {}
    /\ Ended.msg = "NO_ACTIVE_SERVERS"
    /\ \E a, b \in Servers :
          servers[a].status = FULL /\ servers[b].status = UNHEALTHY

(* C17: a pair request that obtained a backend's answer with a body is     *)
(* answered with the backend's status code and the backend's body as they  *)
(* came, also when the body says ok:false or carries an error field.       *)
C17_UpstreamVerbatim ==
    (/\ ev.op = "pairDone"
     /\ ev.up.kind \notin {"none", "empty"}) =>
        /\ ev.status = ev.up.status
        /\ ev.body.origin = "upstream"
        /\ ev.body.data = ev.up

(* C18: when the backend answered ok:true and the bookkeeping that follows *)
(* (the session-count refresh, the index update) fails, the pair request   *)
(* is still answered with the backend's status and body.                   *)
C18_BookkeepingNotSurfaced ==
    [][(\E code \in ErrorCodes : bookFail(code)) =>
           /\ ev'.op = "pairDone"
           /\ ev'.status = pair.up.status
           /\ ev'.body.origin = "upstream"
           /\ ev'.body.data = pair.up]_vars

(* A pair request answered 200 after its bookkeeping failed. *)
C18_Witness ==
    /\ ev.op = "pairDone"
    /\ ev.up.kind = "ok"
    /\ ev.indexed = NoSession
    /\ ev.status = 200
    /\ sessionMap[ev.up.sid] = NoServer

(* C19: an admin request (forced probe, reset) addressed to an id that is  *)
(* not in the registry is answered 404 and changes nothing in the          *)
(* registry.                                                               *)
C19_UnknownBackend404 ==
    [][\A id \in AdminIds \ Servers :
          (forceHealthCheck(id) \/ resetServerRequest(id)) =>
              /\ ev'.status = 404
              /\ registry' = registry]_vars

(* C20: forwardRequest sends to the backend's url followed by the original *)
(* path, with one slash appended exactly when the original path is /pair/  *)
(* followed by one non-empty segment and nothing else; every other path is *)
(* forwarded unchanged.                                                    *)
C20_PairPathRewrite ==
    (fwd.st = "sent" /\ "originalUrl" \in DOMAIN fwd) =>
        LET p == fwd.originalUrl
            onePairSegment ==
                /\ Len(p) > 3
                /\ SubSeq(p, 1, 3) = <<"/", "pair", "/">>
                /\ \A i \in 4..Len(p) : p[i] # "/"
        IN /\ fwd.targetUrl.url = fwd.server
           /\ onePairSegment => fwd.targetUrl.path = Append(p, "/")
           /\ ~onePairSegment => fwd.targetUrl.path = p

(* A pair path is on its way with its slash, to the second backend. *)
C20_Witness ==
    /\ fwd.st = "sent"
    /\ "originalUrl" \in DOMAIN fwd
    /\ fwd.originalUrl = <<"/", "pair", "/", "n">>
    /\ fwd.targetUrl = [url |-> NumServers,
                        path |-> <<"/", "pair", "/", "n", "/">>]

(* C21: a get before the expiry instant of the entry returns the value     *)
(* last set for the key (set stores the value with expiry now + ttl); a    *)
(* get after the expiry instant returns absent and removes the entry, so   *)
(* that a later get without a new set finds no entry and returns absent.   *)
C21_CacheLazyExpiry ==
    [][\A key \in Servers :
          LET e == cacheStore[key] IN
          /\ \A value \in 0..MaxCapacity, ttl \in 1..MaxTtl :
                cacheSet(key, value, ttl) =>
                    cacheStore'[key] = [value |-> value, expiry |-> now + ttl]
          /\ cacheGet(key) =>
                /\ (e # NoEntry /\ now < e.expiry) =>
                      /\ ev'.value = e.value
                      /\ cacheStore' = cacheStore
                /\ (e # NoEntry /\ now > e.expiry) =>
                      /\ ev'.value = null
                      /\ cacheStore'[key] = NoEntry
                /\ e = NoEntry =>
                      /\ ev'.value = null
                      /\ cacheStore' = cacheStore]_vars

(* A get has just found the key absent although another key, set later,    *)
(* still holds its entry: the entry was read after its expiry and dropped. *)
C21_Witness ==
    /\ ev.op = "cacheGet"
    /\ ev.value = null
    /\ now = MaxTime
    /\ cacheStore[ev.key] = NoEntry
    /\ \E other \in Servers : /\ cacheStore[other] # NoEntry
                              /\ cacheStore[other].expiry < now

(* C22: once sessionCount(id) has completed with a successful probe, a     *)
(* second sessionCount(id) made before the time to live has elapsed, with  *)
(* no status update or delete on that backend in between, returns the      *)
(* cached count and sends no probe to the backend.  Here: every selection  *)
(* after the first one finds the counts of all backends in the cache.      *)
C22_SecondCountCached ==
    [][(selectDirect /\ Len(picks) >= 1) =>
          /\ \A id \in Servers : cprobe'[id] = Idle
          /\ Returned'
          /\ \A id \in Servers :
                Ended'.counts[id] = servers[id].sessionCount]_vars

(* C23: a successful probe of the health monitor that observes the session *)
(* list S of backend b refreshes the inventory: afterwards the sessions of *)
(* b in the registry are exactly S and the index maps every id of S to b.  *)
C23_HealthProbeRefreshesInventory ==
    [][\A id \in Servers :
          checkServerHealthOk(id) =>
              LET S == Answer(hprobe[id], id) IN
              /\ servers'[id].sessions = S
              /\ \A x \in S : sessionMap'[x] = id]_vars

(* C24: the failures counter of a backend goes up only in a step that      *)
(* moves the backend into UNHEALTHY from a different status, and then by   *)
(* one; a status update of UNHEALTHY on a backend that is UNHEALTHY        *)
(* already leaves failures unchanged.                                      *)
C24_FailuresOnTransitionOnly ==
    [][\A id \in Servers :
          /\ servers[id].status = UNHEALTHY =>
                servers'[id].failures = servers[id].failures
          /\ servers'[id].failures # servers[id].failures =>
                /\ servers'[id].status = UNHEALTHY
                /\ servers'[id].failures = servers[id].failures + 1]_vars

(* C25: findSessionServer resolves by the index, then by the in-memory     *)
(* lists of all backends, then by probes: when the session is not in the   *)
(* index but is in the in-memory list of some backend, whatever its place  *)
(* in the registry, the call returns that backend with cached: true and    *)
(* the index repaired, and sends no probe to any backend.                  *)
C25_MemoryBeforeProbes ==
    [][\A x \in Sessions :
          (/\ findSession(x)
           /\ sessionMap[x] = NoServer
           /\ \E id \in Servers : x \in servers[id].sessions) =>
              /\ fprobe' = Idle
              /\ ev'.op = "findDone"
              /\ ev'.status = 200
              /\ ev'.cached
              /\ ev'.probes = 0
              /\ x \in servers[ev'.at].sessions
              /\ sessionMap'[x] = ev'.at]_vars

(* C26: a stale index entry (s -> b), for a session b no longer holds,     *)
(* heals itself: after the next successful probe of b (which does not list *)
(* s; for a probe of the health monitor, with no request about a session   *)
(* under way), or after b answers 404 to a logout of s, the index no       *)
(* longer maps s to b.                                                     *)
C26_StaleEntryHeals ==
    [][\A x \in Sessions, b \in Servers :
          (sessionMap[x] = b /\ x \notin backend[b]) =>
              /\ (/\ checkServerHealthOk(b)
                  /\ x \notin Answer(hprobe[b], b)
                  /\ del = NoDel) =>
                    sessionMap'[x] # b
              /\ (findOk /\ del.at = b /\ x \notin Answer(fprobe, b)) =>
                    sessionMap'[x] # b
              /\ (logoutNotFound /\ del.at = b /\ del.sid = x) =>
                    sessionMap'[x] # b]_vars

(* C27 (as stated): in a selection, an active backend whose count probe    *)
(* fails is taken as infinitely loaded: that selection never returns it,   *)
(* and the selection leaves the status of that backend unchanged.          *)
C27_FailedCountStatusUnchanged ==
    [][/\ Returned' => Ended'.counts[Ended'.id] # Infinity
       /\ \A id \in Servers, code \in ErrorCodes :
             selectCountFail(id, code) =>
                 servers'[id].status = servers[id].status]_vars

(* C27 (amended): that selection never returns the backend; its registry   *)
(* record is unchanged when the probe failed otherwise than by a refused   *)
(* or timed-out connection, and is marked UNHEALTHY by sessionCount when   *)
(* the connection was refused or timed out.                                *)
C27_FailedCountExcluded ==
    [][/\ Returned' => Ended'.counts[Ended'.id] # Infinity
       /\ \A id \in Servers, code \in ErrorCodes :
             selectCountFail(id, code) =>
                 IF code \in {ECONNREFUSED, ETIMEDOUT}
                 THEN servers'[id].status = UNHEALTHY
                 ELSE servers'[id] = servers[id]]_vars

(* A selection has returned a backend while the count probe of the other   *)
(* active backend failed, and that one is still HEALTHY.                   *)
C27_Witness ==
    /\ Returned
    /\ \E id \in Ended.active :
          /\ Ended.counts[id] = Infinity
          /\ id # Ended.id
          /\ servers[id].status = HEALTHY
          /\ servers[id].failures = 0

(* C28: whenever selectOptimalServer returns backend b, the count obtained *)
(* for b in that selection is below MAX_SESSIONS_PER_SERVER and is at most *)
(* the count obtained for every other active backend in that selection.    *)
C28_ReturnedIsLeastLoaded ==
    Returned =>
        /\ Ended.id \in Ended.active
        /\ Ended.counts[Ended.id] < MAX_SESSIONS_PER_SERVER
        /\ \A a \in Ended.active :
              Ended.counts[Ended.id] <= Ended.counts[a]

(* A selection over two active backends with different counts below the    *)
(* limit has returned the one with the smaller count.                      *)
C28_Witness ==
    /\ Returned
    /\ \E a \in Ended.active :
          /\ a # Ended.id
          /\ Ended.counts[Ended.id] < Ended.counts[a]
          /\ Ended.counts[a] < MAX_SESSIONS_PER_SERVER

(* C29: when forwardRequest fails at transport level and the selection for *)
(* the retry fails, or the retries are exhausted, the error raised (shown  *)
(* in the 503 answer "Backend server unavailable: <message>") is the       *)
(* transport error of the first failed attempt, never the selection error. *)
C29_FirstErrorRaised ==
    (ev.op = "pairDone" /\ ev.err0 # "none") =>
        /\ ev.status = 503
        /\ ev.body = GatewayError("Backend server unavailable", 0)
        /\ ev.err = ev.err0

(* C30: a transport error in forwardRequest marks the target backend       *)
(* UNHEALTHY exactly when it is a refused, timed-out or aborted            *)
(* connection; any other transport error leaves the registry as it is;     *)
(* in both cases the request is retried while retries remain.              *)
C30_ForwardErrorClasses ==
    [][\A code \in ErrorCodes :
          forwardFail(code) =>
              /\ IF code \in {ECONNREFUSED, ETIMEDOUT, ECONNABORTED}
                 THEN servers'[pair.target].status = UNHEALTHY
                 ELSE servers' = servers
              /\ pair.retries < MAX_RETRIES => pair'.pc = "delay"]_vars

(* A request waits for its second retry: its first attempt was aborted and *)
(* left that backend UNHEALTHY, its second failed with another error and   *)
(* left the other backend HEALTHY.                                         *)
C30_Witness ==
    /\ pair.pc = "delay"
    /\ pair.retries = 1
    /\ pair.err0 = ECONNABORTED
    /\ pair.err = EOTHER
    /\ pair.target # pair.selected
    /\ servers[pair.selected].status = UNHEALTHY
    /\ servers[pair.target].status = HEALTHY
    /\ servers[pair.target].failures = 0

(* C31: when the backend answers 404 to the logout of deleteSession, the   *)
(* index entry of the session and its place in the in-memory list of that  *)
(* backend are removed, the request is answered 404, and deletedSessions   *)
(* is not incremented.                                                     *)
C31_LogoutNotFoundCleansUp ==
    [][logoutNotFound =>
          /\ lg = Served(404)
          /\ sessionMap'[del.sid] = NoServer
          /\ del.sid \notin servers'[del.at].sessions
          /\ ev'.op = "deleteDone"
          /\ ev'.sid = del.sid
          /\ ev'.status = 404
          /\ \A id \in Servers :
                servers'[id].deletedSessions = servers[id].deletedSessions]_vars

(* A delete request was sent to the backend the index named, the backend   *)
(* did not know the session, and the request ended 404 with the index      *)
(* entry gone.                                                             *)
C31_Witness ==
    /\ ev.op = "deleteDone"
    /\ ev.status = 404
    /\ ev.at # NoServer
    /\ ev.cached
    /\ sessionMap[ev.sid] = NoServer

(* C32: when the logout of deleteSession fails at transport level, the     *)
(* error is the answer (no success), the index entry of the session, the   *)
(* in-memory list, sessionCount and deletedSessions of the backend and its *)
(* cache entry are unchanged, and on a refused or timed-out connection the *)
(* backend is marked UNHEALTHY.                                            *)
C32_LogoutTransportFailure ==
    [][\A code \in ErrorCodes :
          logoutFail(code) =>
              LET b == del.at IN
              /\ ev'.op = "deleteDone"
              /\ ev'.status >= 500
              /\ sessionMap' = sessionMap
              /\ servers'[b].sessions = servers[b].sessions
              /\ servers'[b].sessionCount = servers[b].sessionCount
              /\ servers'[b].deletedSessions = servers[b].deletedSessions
              /\ cacheStore' = cacheStore
              /\ code \in {ECONNREFUSED, ETIMEDOUT} =>
                    servers'[b].status = UNHEALTHY]_vars

(* C33: start() is idempotent: over any sequence of start() and stop() at  *)
(* most one interval timer exists, isMonitoring is true exactly while that *)
(* timer exists, and a start() made while monitoring sends no sweep and    *)
(* creates no timer.                                                       *)
C33_StartIdempotent ==
    [][/\ monitor'.timers <= 1
       /\ monitor'.isMonitoring <=> monitor'.timers = 1
       /\ (start /\ monitor.isMonitoring) =>
             /\ hprobe' = hprobe
             /\ monitor' = monitor
             /\ servers' = servers]_vars

(* start() has just been called on a running monitor, after a stop and a   *)
(* restart: one timer is alive.                                            *)
C33_Witness ==
    /\ ev.op = "start"
    /\ ~ev.started
    /\ accepted >= 4
    /\ monitor = Monitoring

(* C34: after stop() no new sweep begins until a later start(); the probes *)
(* in flight when stop() was called are left in flight, can complete, and  *)
(* on completing still apply their status update to the registry.          *)
C34_StopLeavesProbesRunning ==
    [][/\ stop => hprobe' = hprobe
       /\ \A id \in Servers :
             /\ (~monitor.isMonitoring /\ hprobe[id] = Idle
                   /\ hprobe'[id] # Idle) =>
                   (start /\ monitor'.isMonitoring)
             /\ (~monitor.isMonitoring /\ hprobe[id] # Idle) =>
                   /\ ENABLED checkServerHealthOk(id)
                   /\ hprobe'[id] = Idle =>
                         /\ servers'[id].healthChecks =
                               servers[id].healthChecks + 1
                         /\ servers'[id].status =
                               IF checkServerHealthOk(id)
                               THEN IF Cardinality(backend[id]) >=
                                          MAX_SESSIONS_PER_SERVER
                                    THEN FULL ELSE HEALTHY
                               ELSE UNHEALTHY]_vars

(* stop() has just been called while the probes of a sweep to every        *)
(* backend were in flight; they still are.                                 *)
C34_Witness ==
    /\ ev.op = "stop"
    /\ ev.inFlight = Servers
    /\ ~monitor.isMonitoring
    /\ monitor.timers = 0
    /\ \A id \in Servers : hprobe[id] # Idle

(* C35: in one sweep every backend is probed and receives exactly one      *)
(* status update: a probe that ends in an answer other than 200 or in a    *)
(* transport failure sets that backend UNHEALTHY and leaves the probes and *)
(* the records of the other backends of the sweep alone, and these are     *)
(* updated in their turn.                                                  *)
C35_SweepUpdatesEveryBackend ==
    [][/\ (HealthIdle /\ ~HealthIdle') =>
             \A id \in Servers : hprobe'[id] = Sent
       /\ \A id \in Servers :
             /\ hprobe[id] # Idle => ENABLED checkServerHealthOk(id)
             /\ (hprobe[id] # Idle /\ hprobe'[id] = Idle) =>
                   /\ servers'[id].healthChecks = servers[id].healthChecks + 1
                   /\ checkServerHealthFail(id) =>
                         servers'[id].status = UNHEALTHY
                   /\ \A other \in Servers \ {id} :
                         /\ hprobe'[other] = hprobe[other]
                         /\ servers'[other] = servers[other]
             /\ (hprobe[id] = Idle \/ hprobe'[id] # Idle) =>
                   servers'[id] = servers[id]]_vars

(* A sweep has ended: the probe of the first backend failed, the other     *)
(* backend was updated all the same.                                       *)
C35_Witness ==
    /\ HealthIdle
    /\ servers[1].status = UNHEALTHY
    /\ servers[1].healthChecks = 1
    /\ servers[2].status # UNHEALTHY
    /\ servers[2].healthChecks = 1

(* C36: while the health monitor is running, a backend that is UNHEALTHY   *)
(* or FULL and from then on always answers its probe with 200 and fewer    *)
(* than MAX_SESSIONS_PER_SERVER sessions eventually is HEALTHY and among   *)
(* the active backends again.                                              *)
C36_Recovery ==
    \A id \in Servers :
        (servers[id].status \in {UNHEALTHY, FULL}) ~>
            (/\ servers[id].status = HEALTHY
             /\ id \in getActiveServers(servers))

(* Both backends have recovered in one sweep, one from UNHEALTHY (its      *)
(* failure is still counted), the other from FULL.                         *)
C36_Witness ==
    /\ \A id \in Servers : servers[id].status = HEALTHY
    /\ getActiveServers(servers) = Servers
    /\ \A id \in Servers : servers[id].healthChecks = 2
    /\ servers[1].failures = 1
    /\ servers[2].failures = 0
    /\ accepted = 1

C38_DeletedStaysDeleted ==
    [][\A x \in Sessions, b \in Servers :
          (/\ servers[b].deletedSessions > 0
           /\ x \notin backend[b]
           /\ x \notin servers[b].sessions
           /\ sessionMap[x] # b)
          => (x \notin servers'[b].sessions /\ sessionMap'[x] # b)]_vars

====
